---- MODULE Spec2Model ----
(***************************************************************************)
(* Model of SpotifyTool (src/main.py): retrieve_id, retrieve_tracks,       *)
(* all_top_tracks and _run, against a catalog (the spotipy client `sp`)    *)
(* given by two tables: the search results per artist name and the top     *)
(* tracks per artist id.                                                   *)
(***************************************************************************)
EXTENDS Integers, Sequences, FiniteSets

VARIABLES
    search,              \* catalog: artist name -> ids of the matching artists, best first
    topTracks,           \* catalog: artist id -> names of its top tracks, best first
    artists,             \* _run argument: the list of artist names
    tracks,              \* _run argument: the requested number of tracks
    pc,                  \* position in the call
    i,                   \* all_top_tracks: index of the artist being processed
    artist_id,           \* all_top_tracks: id returned by retrieve_id for artists[i]
    complete_track_arr,  \* all_top_tracks: the list of {artist: tracks} built so far
    all_tracks,          \* _run: the flattened pool
    max_tracks,          \* _run: num_artists * 10
    trace,               \* history: catalog calls, the count check and the sampling, in order
    picked,              \* history: the pool positions random.sample drew
    final_tracks,        \* _run: the returned list
    error,               \* the exception raised, NoErr if none
    status,              \* "running", "returned" or "raised"
    arg_id,              \* retrieve_tracks called alone: artist_id
    arg_limit,           \* retrieve_tracks called alone: num_tracks
    perm,                \* all_top_tracks called alone: a permutation of artists
    out,                 \* result of the function called alone
    out2                 \* result of all_top_tracks on perm

vars == <<search, topTracks, artists, tracks, pc, i, artist_id, complete_track_arr,
          all_tracks, max_tracks, trace, picked, final_tracks, error, status,
          arg_id, arg_limit, perm, out, out2>>

(***************************************************************************)
(* Program constants and bounds of the model                               *)
(***************************************************************************)
TrackCap == 10
FetchLimit == 10
PerArtist == 10

MaxArtists == 2
MaxCount == 2
ExtraTop == 1
NegLimits == 2
OverLimits == 2

Names == {"a", "b"}
Ids == {"id1", "id2"}

Min(x, y) == IF x <= y THEN x ELSE y
Max(x, y) == IF x >= y THEN x ELSE y
Range(s) == {s[j] : j \in DOMAIN s}
Run(first, n) == [j \in 1..n |-> first + j - 1]

\* what the catalog may answer to a search: nothing, one artist, two artists
SearchOptions == {<<>>, <<"id1">>, <<"id2", "id1">>}
\* what the catalog may list as an artist's top tracks: for one artist nothing or a
\* list longer than the cap, for the other a short list with a repeated name or a
\* short list without; the lists of the two artists share names
TopOptions(id) ==
    IF id = "id1" THEN {<<>>, Run(1, TrackCap + ExtraTop)}
    ELSE {<<1, 1, 2>>, <<2, 3>>}
TopCatalogs == {t \in [Ids -> UNION {TopOptions(id) : id \in Ids}] :
                   \A id \in Ids : t[id] \in TopOptions(id)}

ArtistLists == UNION {[1..n -> Names] : n \in 0..MaxArtists}
\* requested counts: small ones, and one above the capacity of the artist list
Counts(artist_array) == (-1..MaxCount) \cup {PerArtist * Len(artist_array) + 1}
Limits == (0 - NegLimits)..(TrackCap + OverLimits)

(***************************************************************************)
(* Exceptions and results                                                  *)
(***************************************************************************)
NoErr == [exc |-> "", site |-> "", msg |-> "", artist |-> "", max |-> -1]
Err(exc, site, msg, artist, max) ==
    [exc |-> exc, site |-> site, msg |-> msg, artist |-> artist, max |-> max]

Ok(val, calls) == [ok |-> TRUE, val |-> val, err |-> NoErr, calls |-> calls]
Raise(err, calls) == [ok |-> FALSE, val |-> <<>>, err |-> err, calls |-> calls]
NoRes == Raise(NoErr, <<>>)

Call(op, arg) == [op |-> op, arg |-> arg]

(***************************************************************************)
(* The catalog client                                                      *)
(***************************************************************************)
\* sp.search(q='artist:' + name, type='artist'): a dict with the one key 'artists'
sp_search(artist_name) ==
    [artists |-> [items |-> [j \in 1..Len(search[artist_name]) |->
                                [id |-> search[artist_name][j]]]]]

\* sp.artist_top_tracks(artist_id): a dict with the key 'tracks'
sp_artist_top_tracks(id) ==
    [tracks |-> [j \in 1..Len(topTracks[id]) |-> [name |-> topTracks[id][j]]]]

\* len() of a dict: the number of its keys
py_len(d) == Cardinality(DOMAIN d)

\* s[:n]
py_slice_to(s, n) ==
    IF n >= 0 THEN SubSeq(s, 1, Min(n, Len(s)))
    ELSE SubSeq(s, 1, Max(Len(s) + n, 0))

(***************************************************************************)
(* retrieve_id                                                             *)
(***************************************************************************)
retrieve_id(artist_name) ==
    LET results == sp_search(artist_name)
        calls == <<Call("search", artist_name)>>
    IN  IF py_len(results) > 0
        THEN IF Len(results.artists.items) > 0
             THEN Ok(results.artists.items[1].id, calls)
             ELSE Raise(Err("IndexError", "retrieve_id", "list index out of range", "", -1),
                        calls)
        ELSE Raise(Err("ValueError", "retrieve_id", "No artists found with this name",
                       artist_name, -1), calls)

(***************************************************************************)
(* retrieve_tracks                                                         *)
(***************************************************************************)
retrieve_tracks_off_by_one(id, num_tracks) ==
    IF num_tracks > TrackCap
    THEN Raise(Err("ValueError", "retrieve_tracks",
                   "Can only provide up to 10 tracks per artist", "", -1), <<>>)
    ELSE LET top_tracks == sp_artist_top_tracks(id)
             kept == py_slice_to(top_tracks.tracks, num_tracks + 1)
         IN  Ok([j \in 1..Len(kept) |-> kept[j].name], <<Call("top_tracks", id)>>)

retrieve_tracks(id, num_tracks) ==
    IF num_tracks > TrackCap
    THEN Raise(Err("ValueError", "retrieve_tracks",
                   "Can only provide up to 10 tracks per artist", "", -1), <<>>)
    ELSE LET top_tracks == sp_artist_top_tracks(id)
             kept == py_slice_to(top_tracks.tracks, num_tracks)
         IN  Ok([j \in 1..Len(kept) |-> kept[j].name], <<Call("top_tracks", id)>>)

(***************************************************************************)
(* all_top_tracks, as a function of its argument                           *)
(***************************************************************************)
RECURSIVE all_top_tracks_loop(_, _, _, _)
all_top_tracks_loop(artist_array, k, complete, calls) ==
    IF k > Len(artist_array) THEN Ok(complete, calls)
    ELSE LET r == retrieve_id(artist_array[k])
         IN  IF ~r.ok THEN Raise(r.err, calls \o r.calls)
             ELSE LET t == retrieve_tracks(r.val, FetchLimit)
                  IN  IF ~t.ok THEN Raise(t.err, calls \o r.calls \o t.calls)
                      ELSE all_top_tracks_loop(
                               artist_array, k + 1,
                               Append(complete, [artist |-> artist_array[k], tracks |-> t.val]),
                               calls \o r.calls \o t.calls)

\* the id of the first artist reused for every artist
RECURSIVE all_top_tracks_stale_loop(_, _, _, _)
all_top_tracks_stale_loop(artist_array, k, complete, calls) ==
    IF k > Len(artist_array) THEN Ok(complete, calls)
    ELSE LET r == retrieve_id(artist_array[1])
         IN  IF ~r.ok THEN Raise(r.err, calls \o r.calls)
             ELSE LET t == retrieve_tracks(r.val, FetchLimit)
                  IN  IF ~t.ok THEN Raise(t.err, calls \o r.calls \o t.calls)
                      ELSE all_top_tracks_stale_loop(
                               artist_array, k + 1,
                               Append(complete, [artist |-> artist_array[k], tracks |-> t.val]),
                               calls \o r.calls \o t.calls)

all_top_tracks_stale(artist_array) == all_top_tracks_stale_loop(artist_array, 1, <<>>, <<>>)

all_top_tracks(artist_array) == all_top_tracks_loop(artist_array, 1, <<>>, <<>>)

(***************************************************************************)
(* _run: the flattened pool and the sampling                               *)
(***************************************************************************)
\* [track for artist_map in all_tracks_map for artist, tracks in artist_map.items()
\*        for track in tracks]
RECURSIVE flatten(_)
flatten(all_tracks_map) ==
    IF all_tracks_map = <<>> THEN <<>>
    ELSE Head(all_tracks_map).tracks \o flatten(Tail(all_tracks_map))

\* the artist key each pool position comes from
RECURSIVE pool_artists(_)
pool_artists(all_tracks_map) ==
    IF all_tracks_map = <<>> THEN <<>>
    ELSE [j \in 1..Len(Head(all_tracks_map).tracks) |-> Head(all_tracks_map).artist]
         \o pool_artists(Tail(all_tracks_map))

\* the sequences of k distinct positions among 1..n
RECURSIVE distinct_positions(_, _)
distinct_positions(n, k) ==
    IF k <= 0 THEN {<<>>}
    ELSE UNION {{Append(s, x) : x \in (1..n) \ Range(s)} : s \in distinct_positions(n, k - 1)}

\* the sequences of k positions among 1..n, repeats allowed
RECURSIVE any_positions(_, _)
any_positions(n, k) ==
    IF k <= 0 THEN {<<>>}
    ELSE UNION {{Append(s, x) : x \in 1..n} : s \in any_positions(n, k - 1)}

\* a sample cut down to what the population holds instead of raising
random_sample_truncating(population, k) ==
    [raises |-> k < 0,
     positions |-> distinct_positions(Len(population), Min(k, Len(population)))]

\* a sample drawn with replacement (random.choices)
random_sample_replacing(population, k) ==
    [raises |-> k < 0 \/ k > Len(population),
     positions |-> any_positions(Len(population), k)]

\* random.sample(population, k): raises ValueError unless 0 <= k <= len(population),
\* else returns the elements at k distinct positions, in any order
random_sample(population, k) ==
    [raises |-> k < 0 \/ k > Len(population),
     positions |-> distinct_positions(Len(population), k)]

(***************************************************************************)
(* _run, step by step                                                      *)
(***************************************************************************)
pureVars == <<arg_id, arg_limit, perm, out, out2>>
catalogVars == <<search, topTracks>>
inputVars == <<artists, tracks>>

Init ==
    /\ search \in [Names -> SearchOptions]
    /\ topTracks \in TopCatalogs
    /\ artists \in ArtistLists
    /\ tracks \in Counts(artists)
    /\ pc = "run"
    /\ i = 1
    /\ artist_id = ""
    /\ complete_track_arr = <<>>
    /\ all_tracks = <<>>
    /\ max_tracks = 0
    /\ trace = <<>>
    /\ picked = <<>>
    /\ final_tracks = <<>>
    /\ error = NoErr
    /\ status = "running"
    /\ arg_id = ""
    /\ arg_limit = 0
    /\ perm = <<>>
    /\ out = NoRes
    /\ out2 = NoRes

\* an exception leaves _run
Raised(err) ==
    /\ error' = err
    /\ status' = "raised"
    /\ pc' = "done"

\* the capacity computed with the wrong factor
Run_begin_wrong_capacity ==
    /\ pc = "run"
    /\ max_tracks' = Len(artists) * (PerArtist + 1)
    /\ i' = 1
    /\ pc' = "all_top_tracks"
    /\ UNCHANGED <<catalogVars, inputVars, artist_id, complete_track_arr, all_tracks,
                   trace, picked, final_tracks, error, status, pureVars>>

\* the count checked against the capacity before any catalog call
Run_begin_check_first ==
    /\ pc = "run"
    /\ max_tracks' = Len(artists) * PerArtist
    /\ i' = 1
    /\ trace' = Append(trace, Call("check", ""))
    /\ IF tracks > Len(artists) * PerArtist
       THEN Raised(Err("ValueError", "_run",
                       "Only 10 tracks per artist, max tracks for this many artists is",
                       "", Len(artists) * PerArtist))
       ELSE /\ pc' = "all_top_tracks"
            /\ UNCHANGED <<error, status>>
    /\ UNCHANGED <<catalogVars, inputVars, artist_id, complete_track_arr, all_tracks,
                   picked, final_tracks, pureVars>>

\* num_artists = len(artists); max_tracks = num_artists * 10; call all_top_tracks
Run_begin ==
    /\ pc = "run"
    /\ max_tracks' = Len(artists) * PerArtist
    /\ i' = 1
    /\ pc' = "all_top_tracks"
    /\ UNCHANGED <<catalogVars, inputVars, artist_id, complete_track_arr, all_tracks,
                   trace, picked, final_tracks, error, status, pureVars>>

\* an artist that does not resolve is skipped and the loop goes on
Loop_retrieve_id_skipping ==
    /\ pc = "all_top_tracks"
    /\ i <= Len(artists)
    /\ LET r == retrieve_id(artists[i])
       IN  /\ trace' = trace \o r.calls
           /\ IF r.ok
              THEN /\ artist_id' = r.val
                   /\ pc' = "retrieve_tracks"
                   /\ UNCHANGED i
              ELSE /\ i' = i + 1
                   /\ UNCHANGED <<artist_id, pc>>
    /\ UNCHANGED <<catalogVars, inputVars, complete_track_arr, all_tracks, max_tracks,
                   picked, final_tracks, error, status, pureVars>>

\* for artist in artist_array: artist_id = retrieve_id(artist)
Loop_retrieve_id ==
    /\ pc = "all_top_tracks"
    /\ i <= Len(artists)
    /\ LET r == retrieve_id(artists[i])
       IN  /\ trace' = trace \o r.calls
           /\ IF r.ok
              THEN /\ artist_id' = r.val
                   /\ pc' = "retrieve_tracks"
                   /\ UNCHANGED <<error, status>>
              ELSE /\ Raised(r.err)
                   /\ UNCHANGED artist_id
    /\ UNCHANGED <<catalogVars, inputVars, i, complete_track_arr, all_tracks, max_tracks,
                   picked, final_tracks, pureVars>>

\* all_tracks = {artist: retrieve_tracks(artist_id, 10)}; complete_track_arr.append(...)
Loop_retrieve_tracks ==
    /\ pc = "retrieve_tracks"
    /\ LET t == retrieve_tracks(artist_id, FetchLimit)
       IN  /\ trace' = trace \o t.calls
           /\ IF t.ok
              THEN /\ complete_track_arr' =
                          Append(complete_track_arr, [artist |-> artists[i], tracks |-> t.val])
                   /\ i' = i + 1
                   /\ pc' = "all_top_tracks"
                   /\ UNCHANGED <<error, status>>
              ELSE /\ Raised(t.err)
                   /\ UNCHANGED <<complete_track_arr, i>>
    /\ UNCHANGED <<catalogVars, inputVars, artist_id, all_tracks, max_tracks,
                   picked, final_tracks, pureVars>>

\* return complete_track_arr; then _run flattens the map into the pool
Loop_return ==
    /\ pc = "all_top_tracks"
    /\ i > Len(artists)
    /\ all_tracks' = flatten(complete_track_arr)
    /\ pc' = "check"
    /\ UNCHANGED <<catalogVars, inputVars, i, artist_id, complete_track_arr, max_tracks,
                   trace, picked, final_tracks, error, status, pureVars>>

\* if tracks > max_tracks: raise ValueError(...)
Run_check ==
    /\ pc = "check"
    /\ trace' = Append(trace, Call("check", ""))
    /\ IF tracks > max_tracks
       THEN Raised(Err("ValueError", "_run",
                       "Only 10 tracks per artist, max tracks for this many artists is",
                       "", max_tracks))
       ELSE /\ pc' = "sample"
            /\ UNCHANGED <<error, status>>
    /\ UNCHANGED <<catalogVars, inputVars, i, artist_id, complete_track_arr, all_tracks,
                   max_tracks, picked, final_tracks, pureVars>>

\* final_tracks = random.sample(all_tracks, tracks); return final_tracks
Run_sample ==
    /\ pc = "sample"
    /\ trace' = Append(trace, Call("sample", ""))
    /\ IF random_sample(all_tracks, tracks).raises
       THEN /\ Raised(Err("ValueError", "random.sample",
                          "Sample larger than population or is negative", "", -1))
            /\ UNCHANGED <<picked, final_tracks>>
       ELSE /\ \E s \in random_sample(all_tracks, tracks).positions :
                  /\ picked' = s
                  /\ final_tracks' = [j \in 1..Len(s) |-> all_tracks[s[j]]]
            /\ status' = "returned"
            /\ pc' = "done"
            /\ UNCHANGED error
    /\ UNCHANGED <<catalogVars, inputVars, i, artist_id, complete_track_arr, all_tracks,
                   max_tracks, pureVars>>

\* sp.search raises (network, credentials): the exception leaves retrieve_id unhandled
Search_raises ==
    /\ pc = "all_top_tracks"
    /\ i <= Len(artists)
    /\ trace' = Append(trace, Call("search", artists[i]))
    /\ Raised(Err("SpotifyException", "sp.search", "", "", -1))
    /\ UNCHANGED <<catalogVars, inputVars, i, artist_id, complete_track_arr, all_tracks,
                   max_tracks, picked, final_tracks, pureVars>>

\* sp.artist_top_tracks raises: the exception leaves retrieve_tracks unhandled
TopTracks_raises ==
    /\ pc = "retrieve_tracks"
    /\ trace' = Append(trace, Call("top_tracks", artist_id))
    /\ Raised(Err("SpotifyException", "sp.artist_top_tracks", "", "", -1))
    /\ UNCHANGED <<catalogVars, inputVars, i, artist_id, complete_track_arr, all_tracks,
                   max_tracks, picked, final_tracks, pureVars>>

Next ==
    \/ Run_begin
    \/ Loop_retrieve_id
    \/ Loop_retrieve_tracks
    \/ Loop_return
    \/ Run_check
    \/ Run_sample
    \/ Search_raises
    \/ TopTracks_raises

Spec == Init /\ [][Next]_vars

(***************************************************************************)
(* retrieve_tracks called alone, for every limit                           *)
(***************************************************************************)
InitFetch ==
    /\ search = [n \in Names |-> <<>>]
    /\ topTracks \in TopCatalogs
    /\ arg_id \in Ids
    /\ arg_limit \in Limits
    /\ pc = "call_retrieve_tracks"
    /\ artists = <<>>
    /\ tracks = 0
    /\ i = 1
    /\ artist_id = ""
    /\ complete_track_arr = <<>>
    /\ all_tracks = <<>>
    /\ max_tracks = 0
    /\ trace = <<>>
    /\ picked = <<>>
    /\ final_tracks = <<>>
    /\ error = NoErr
    /\ status = "running"
    /\ perm = <<>>
    /\ out = NoRes
    /\ out2 = NoRes

Fetch_call ==
    /\ pc = "call_retrieve_tracks"
    /\ out' = retrieve_tracks(arg_id, arg_limit)
    /\ pc' = "fetched"
    /\ UNCHANGED <<catalogVars, inputVars, i, artist_id, complete_track_arr, all_tracks,
                   max_tracks, trace, picked, final_tracks, error, status,
                   arg_id, arg_limit, perm, out2>>

NextFetch == Fetch_call

SpecFetch == InitFetch /\ [][NextFetch]_vars

(***************************************************************************)
(* all_top_tracks called alone, on a list and on a permutation of it       *)
(***************************************************************************)
Permutations(s) ==
    {[j \in 1..Len(s) |-> s[f[j]]] :
        f \in {g \in [1..Len(s) -> 1..Len(s)] : \A x, y \in 1..Len(s) : x # y => g[x] # g[y]}}

InitPerm ==
    /\ search \in [Names -> SearchOptions]
    /\ topTracks \in TopCatalogs
    /\ artists \in ArtistLists
    /\ perm \in Permutations(artists)
    /\ pc = "call_all_top_tracks"
    /\ tracks = 0
    /\ i = 1
    /\ artist_id = ""
    /\ complete_track_arr = <<>>
    /\ all_tracks = <<>>
    /\ max_tracks = 0
    /\ trace = <<>>
    /\ picked = <<>>
    /\ final_tracks = <<>>
    /\ error = NoErr
    /\ status = "running"
    /\ arg_id = ""
    /\ arg_limit = 0
    /\ out = NoRes
    /\ out2 = NoRes

Aggregate_call ==
    /\ pc = "call_all_top_tracks"
    /\ out' = all_top_tracks(artists)
    /\ out2' = all_top_tracks(perm)
    /\ pc' = "aggregated"
    /\ UNCHANGED <<catalogVars, inputVars, i, artist_id, complete_track_arr, all_tracks,
                   max_tracks, trace, picked, final_tracks, error, status,
                   arg_id, arg_limit, perm>>

NextPerm == Aggregate_call

SpecPerm == InitPerm /\ [][NextPerm]_vars

(***************************************************************************)
(* Properties                                                              *)
(***************************************************************************)
Count(s, x) == Cardinality({j \in DOMAIN s : s[j] = x})
BagOf(s) == [x \in Range(s) |-> Count(s, x)]
Capacity == 10 * Len(artists)
\* the catalog's first ten top tracks of the artist a name resolves to
FirstTen(name) == SubSeq(topTracks[search[name][1]], 1, Min(10, Len(topTracks[search[name][1]])))
\* the events of the history that are catalog calls
IsCatalogCall(e) == e.op \in {"search", "top_tracks"}
Checked == \E p \in DOMAIN trace : trace[p].op = "check"
Sampled == \E p \in DOMAIN trace : trace[p].op = "sample"
CapacityError ==
    /\ status = "raised"
    /\ error.exc = "ValueError"
    /\ error.site = "_run"
    /\ error.msg = "Only 10 tracks per artist, max tracks for this many artists is"
    /\ error.max = Capacity
\* the (artist, track) pair behind the p-th entry of the returned list
PickedPair(p) == <<pool_artists(complete_track_arr)[picked[p]], all_tracks[picked[p]]>>

\* C1: whenever _run returns a list, the list has exactly `tracks` entries.
C1_LengthIsRequestedCount ==
    status = "returned" => Len(final_tracks) = tracks

C1_Witness ==
    /\ status = "returned"
    /\ tracks = 2
    /\ Len(final_tracks) = 2
    /\ Len(all_tracks) > 2

\* C2: in every returned list, artist lists with a repeated name included, no
\* (artist, track) pair underlies two entries of the result.
C2_NoPairTwice ==
    status = "returned" =>
        \A p, q \in DOMAIN picked : p # q => PickedPair(p) # PickedPair(q)

\* C3 as stated: a requested count above 10 * len(artists) always ends in the capacity
\* error, whatever the artists and the content of the catalog (every catalog call
\* answering).
C3_AlwaysCapacityError ==
    (pc = "done" /\ tracks > Capacity /\ error.exc # "SpotifyException") => CapacityError

\* C3 as the code has it: a requested count above 10 * len(artists) never returns a
\* list; the call ends in the capacity error once the aggregation over all artists has
\* completed (the empty artist list included), and in the error of the lookup or
\* fetch that failed when the aggregation did not complete.
C3_CapacityErrorAfterAggregation ==
    tracks > Capacity =>
        /\ status # "returned"
        /\ pc = "done" =>
              IF Len(complete_track_arr) = Len(artists)
              THEN CapacityError
              ELSE /\ status = "raised"
                   /\ error.site \in {"retrieve_id", "sp.search", "sp.artist_top_tracks"}
                   /\ ~Checked

C3_Witness ==
    /\ pc = "done"
    /\ Len(artists) = 2
    /\ tracks = 21
    /\ Len(trace) = 5
    /\ CapacityError

\* C4: when the search returns no artist for a name of the request, the call fails
\* with the "No artists found with this name" error naming that artist.
C4_ArtistNotFoundNamesArtist ==
    (/\ pc = "done"
     /\ i <= Len(artists)
     /\ trace # <<>>
     /\ trace[Len(trace)] = Call("search", artists[i])
     /\ error.exc # "SpotifyException"
     /\ search[artists[i]] = <<>>) =>
        /\ status = "raised"
        /\ error.exc = "ValueError"
        /\ error.msg = "No artists found with this name"
        /\ error.artist = artists[i]

\* C5: when every artist resolves and the requested count is within 10 * len(artists)
\* but above the size of the pool, the call fails with an InsufficientTracks error
\* raised by a check of the pool size in _run, not inside the sampling.
C5_InsufficientTracksChecked ==
    (/\ pc = "done"
     /\ Checked
     /\ tracks <= Capacity
     /\ tracks > Len(all_tracks)) =>
        /\ status = "raised"
        /\ error.site = "_run"
        /\ error.msg = "InsufficientTracks"
        /\ ~Sampled

\* C6 as stated: a limit above 10 fails before the catalog call; every limit not above
\* 10 returns at most 10 names, a prefix of the catalog's list, no longer than the limit
\* (for a negative limit: no name at all).
C6_EveryLimitUpToTen ==
    pc = "fetched" =>
        IF arg_limit > 10
        THEN /\ ~out.ok
             /\ out.err.msg = "Can only provide up to 10 tracks per artist"
             /\ out.calls = <<>>
        ELSE /\ out.ok
             /\ Len(out.val) <= 10
             /\ Len(out.val) <= Max(arg_limit, 0)
             /\ Len(out.val) <= Len(topTracks[arg_id])
             /\ out.val = SubSeq(topTracks[arg_id], 1, Len(out.val))

\* C6 as the code has it: a limit above 10 fails before the catalog call; every limit
\* from 0 to 10 returns the first min(limit, available) names of the catalog's list,
\* so at most 10 and at most the limit; a negative limit returns a prefix of the list
\* too, of all entries but the last -limit, which is longer than the limit.
C6_LimitFromZeroToTen ==
    pc = "fetched" =>
        IF arg_limit > 10
        THEN /\ ~out.ok
             /\ out.err.msg = "Can only provide up to 10 tracks per artist"
             /\ out.calls = <<>>
        ELSE /\ out.ok
             /\ out.calls = <<Call("top_tracks", arg_id)>>
             /\ Len(out.val) <= Len(topTracks[arg_id])
             /\ out.val = SubSeq(topTracks[arg_id], 1, Len(out.val))
             /\ arg_limit >= 0 =>
                   /\ Len(out.val) <= 10
                   /\ Len(out.val) = Min(arg_limit, Len(topTracks[arg_id]))
             /\ arg_limit < 0 =>
                   Len(out.val) = Max(Len(topTracks[arg_id]) + arg_limit, 0)

C6_Witness ==
    /\ pc = "fetched"
    /\ arg_limit = 3
    /\ Len(topTracks[arg_id]) >= 10
    /\ out.ok
    /\ Len(out.val) = 3

\* C7: an error ends the call with nothing returned: when the first artist that does
\* not resolve is the j-th, no catalog call is made after its lookup, the count is
\* never checked, nothing is sampled and no list is returned, even with the tracks of
\* the artists before it already fetched; and after any exception no step follows.
C7_StateInv ==
    /\ status = "raised" =>
          /\ pc = "done"
          /\ final_tracks = <<>>
          /\ picked = <<>>
    /\ (status = "raised" /\ error.site \in {"retrieve_id", "sp.search", "sp.artist_top_tracks"}) =>
          /\ ~Checked
          /\ ~Sampled
          /\ Len(trace) \in {2 * Len(complete_track_arr) + 1, 2 * Len(complete_track_arr) + 2}
    /\ \A j \in DOMAIN artists :
          (search[artists[j]] = <<>> /\ \A m \in 1..(j - 1) : search[artists[m]] # <<>>) =>
              /\ status # "returned"
              /\ final_tracks = <<>>
              /\ Len(trace) <= 2 * j - 1
              /\ Len(complete_track_arr) <= j - 1
              /\ ~Checked
              /\ ~Sampled

C7_ErrorsAreTerminal ==
    [](C7_StateInv) /\ [][status = "raised" => UNCHANGED vars]_vars

C7_Witness ==
    /\ status = "raised"
    /\ Len(artists) = 2
    /\ search[artists[2]] = <<>>
    /\ Len(complete_track_arr) = 1
    /\ complete_track_arr[1].tracks # <<>>
    /\ error.site = "retrieve_id"
    /\ Len(trace) = 3

\* C8: the history of a call is: for each artist in request order its lookup then its
\* top-tracks fetch (kept to the first 10), then the check of the count, then the
\* sampling; no catalog call comes after the check.
C8_StepOrder ==
    /\ \A p \in DOMAIN trace :
          /\ trace[p].op = "search" =>
                /\ p % 2 = 1
                /\ p <= 2 * Len(artists)
                /\ trace[p].arg = artists[(p + 1) \div 2]
          /\ trace[p].op = "top_tracks" =>
                /\ p % 2 = 0
                /\ p <= 2 * Len(artists)
                /\ trace[p - 1] = Call("search", artists[p \div 2])
                /\ search[artists[p \div 2]] # <<>>
                /\ trace[p].arg = search[artists[p \div 2]][1]
          /\ trace[p].op = "check" =>
                /\ p = 2 * Len(artists) + 1
                /\ \A q \in 1..(p - 1) : IsCatalogCall(trace[q])
          /\ trace[p].op = "sample" =>
                /\ p = 2 * Len(artists) + 2
                /\ trace[p - 1].op = "check"
          /\ IsCatalogCall(trace[p]) => \A q \in 1..(p - 1) : IsCatalogCall(trace[q])
    /\ \A j \in DOMAIN complete_track_arr :
          /\ complete_track_arr[j].artist = artists[j]
          /\ Len(trace) >= 2 * j
          /\ complete_track_arr[j].tracks = FirstTen(artists[j])
    /\ status = "returned" =>
          /\ Len(trace) = 2 * Len(artists) + 2
          /\ trace[Len(trace)].op = "sample"

C8_Witness ==
    /\ status = "returned"
    /\ Len(artists) = 2
    /\ artists[1] # artists[2]
    /\ Len(trace) = 6
    /\ tracks = 2

\* C9: when every artist resolves, all_top_tracks on a permutation of the artist list
\* yields the same entries (artist, its first 10 top tracks) as on the list itself, each
\* as many times, and the flattened pools are the same multiset of track names.
C9_PermutationSameContent ==
    (pc = "aggregated" /\ \A j \in DOMAIN artists : search[artists[j]] # <<>>) =>
        /\ out.ok
        /\ out2.ok
        /\ Len(out.val) = Len(artists)
        /\ BagOf(out.val) = BagOf(out2.val)
        /\ BagOf(flatten(out.val)) = BagOf(flatten(out2.val))
        /\ \A j \in DOMAIN out.val :
              /\ out.val[j].artist = artists[j]
              /\ out.val[j].tracks = FirstTen(artists[j])
        /\ \A j \in DOMAIN out2.val :
              /\ out2.val[j].artist = perm[j]
              /\ out2.val[j].tracks = FirstTen(perm[j])

C9_Witness ==
    /\ pc = "aggregated"
    /\ Len(artists) = 2
    /\ perm # artists
    /\ out.ok
    /\ out2.ok
    /\ out.val # out2.val
    /\ out.val[1].tracks # out.val[2].tracks
    /\ flatten(out.val) # flatten(out2.val)

\* C10: every name of a returned list is among the first 10 top tracks the catalog
\* lists for one of the requested artists, and occurs in the list at most as often
\* as in the pool.
C10_ResultWithinPool ==
    status = "returned" =>
        \A x \in Range(final_tracks) :
            /\ Count(final_tracks, x) <= Count(all_tracks, x)
            /\ \E j \in DOMAIN artists :
                  /\ search[artists[j]] # <<>>
                  /\ x \in Range(FirstTen(artists[j]))

C10_Witness ==
    /\ status = "returned"
    /\ Len(final_tracks) = 2
    /\ Len(artists) = 2
    /\ final_tracks[1] = final_tracks[2]
    /\ search[artists[1]] # search[artists[2]]

====
